---------------------------- MODULE Spec2Model ----------------------------
(***************************************************************************)
(* A model of MinecraftLauncher (src/main.py): the Launch button handler   *)
(* launch_minecraft and everything it calls (download_version,             *)
(* fetch_versions, download_file, download_lwjgl), run against a remote    *)
(* that may fail and a local file system that persists between launches.   *)
(*                                                                         *)
(* JSON objects are functions from keys to values, so that Python's        *)
(* `k in d`, `d.get(k, default)` and a KeyError on `d[k]` are what they    *)
(* are in the source.  Python's None and every empty (falsy) container are *)
(* the empty function <<>>.                                                *)
(***************************************************************************)
EXTENDS Integers, Sequences, FiniteSets, TLC

(***************************************************************************)
(* Bounds of the model.                                                    *)
(***************************************************************************)
MaxLibs   == 2   \* libraries in the descriptor
MaxIndex  == 2   \* entries in the version index
MaxChunks == 1   \* chunks a response body delivers
MaxFaults == 1   \* remote / transfer anomalies over the whole behaviour
MaxRuns   == 2   \* presses of the Launch button

None == <<>>

\* A number that may be None is held in a box.
Some(x) == <<x>>

Value(box) == box[1]

(***************************************************************************)
(* Python dict access.                                                     *)
(***************************************************************************)
Has(d, k) == k \in DOMAIN d

Get(d, k, default) == IF Has(d, k) THEN d[k] ELSE default

(***************************************************************************)
(* Strings that the code splits are sequences of tokens, "/" being the     *)
(* separator character.  Split is str.split('/'): the segments between the *)
(* separators, empty ones included.                                        *)
(***************************************************************************)
RECURSIVE SplitAcc(_, _, _)
SplitAcc(s, cur, acc) ==
    IF s = <<>> THEN Append(acc, cur)
    ELSE IF Head(s) = "/" THEN SplitAcc(Tail(s), "", Append(acc, cur))
    ELSE SplitAcc(Tail(s), cur \o Head(s), acc)

Split(s) == SplitAcc(s, "", <<>>)

Last(s) == s[Len(s)]

\* os.path.join(base, *segs): each segment is appended as one more
\* component; an empty segment adds no component.
PathJoin(base, segs) == base \o SelectSeq(segs, LAMBDA x : x # "")

\* os.path.dirname
Dirname(p) == SubSeq(p, 1, Len(p) - 1)

\* What the operating system opens for a path: ".." steps to the parent.
RECURSIVE Resolve(_, _)
Resolve(p, acc) ==
    IF p = <<>> THEN acc
    ELSE IF Head(p) = ".."
         THEN Resolve(Tail(p), IF acc = <<>> THEN acc ELSE Dirname(acc))
    ELSE Resolve(Tail(p), Append(acc, Head(p)))

Real(p) == Resolve(p, <<>>)

(***************************************************************************)
(* The local storage layout.                                               *)
(***************************************************************************)
AppData == <<"%APPDATA%">>
Home    == <<"~">>

VersionDir(id)    == PathJoin(AppData, <<".minecraft", "versions", id>>)
JarPath(id)       == PathJoin(VersionDir(id), <<id \o ".jar">>)
JsonPath(id)      == PathJoin(VersionDir(id), <<id \o ".json">>)
ClasspathFile(id) == PathJoin(VersionDir(id), <<"classpath.txt">>)
LibrariesPath     == PathJoin(AppData, <<".minecraft", "libraries">>)
ArtifactPath(artifact) == PathJoin(LibrariesPath, Split(artifact["path"]))

McDirectory       == PathJoin(AppData, <<".minecraft">>)
McJar(id)         == PathJoin(McDirectory, <<"versions", id, id \o ".jar">>)
\* LaunchArtifactPath under the home directory, where the LWJGL package is.
LaunchArtifactPathHome(artifact) ==
    PathJoin(Home, <<".minecraft", "libraries">> \o Split(artifact["path"]))

LaunchArtifactPath(artifact) ==
    PathJoin(McDirectory, <<"libraries">> \o Split(artifact["path"]))

LwjglZipUrl  == "lwjgl-2.9.3.zip"
LwjglZipPath == PathJoin(Home, <<".minecraft", "lwjgl-2.9.3.zip">>)
LwjglPath    == PathJoin(Home, <<".minecraft", "lwjgl-2.9.3">>)
NativesDir   == PathJoin(LwjglPath, <<"lwjgl-2.9.3", "native", "windows">>)
ExpectedFiles == <<"lwjgl.dll", "lwjgl64.dll">>

(***************************************************************************)
(* The remote's documents.  The platform the launcher is written for is    *)
(* Windows (%APPDATA%, native/windows, the .dll names).                    *)
(***************************************************************************)
Platform == "windows"

Ids == {"v1", "v2"}

IndexEntries == {[id |-> i, url |-> "U_" \o i] : i \in Ids}

\* The index document: {versions: [{id, url}, ...]}.
Indexes ==
    {[versions |-> s] :
        s \in UNION {[1..n -> IndexEntries] : n \in 0..MaxIndex}}

LibA ==
    [name |-> "A",
     downloads |->
        [artifact |-> [path |-> <<"a", "/", "x.jar">>, url |-> "uA"],
         classifiers |->
            [natives_windows |->
                [path |-> <<"a", "/", "x-natives.jar">>, url |-> "uAn"]]],
     natives |-> [windows |-> "natives_windows"]]

LibB ==
    [name |-> "B",
     downloads |-> [artifact |-> [path |-> <<"b", "/", "y.jar">>, url |-> "uB"]],
     rules |-> {[os |-> "windows", applies |-> FALSE]}]

LibEsc ==
    [name |-> "E",
     downloads |->
        [artifact |-> [path |-> <<"..", "/", "e.jar">>, url |-> "uE"]]]

LibNoDl == [name |-> "N"]

LibNoUrl ==
    [name |-> "P",
     downloads |-> [artifact |-> [path |-> <<"c", "/", "z.jar">>]]]

LibNoPath == [name |-> "Q", downloads |-> [artifact |-> [url |-> "uQ"]]]

Libraries == {LibA, LibB, LibEsc, LibNoDl, LibNoUrl, LibNoPath}

\* The descriptor document: {mainClass, downloads: {client: {url}}, libraries}.
Descriptors ==
    {[mainClass |-> "net.example.Main",
      downloads |-> [client |-> [url |-> "uJar"]],
      libraries |-> libs] :
        libs \in UNION {[1..n -> Libraries] : n \in 0..MaxLibs}}

\* A JSON body that is no descriptor (an error document).
ErrorBody == [error |-> "not found"]


(***************************************************************************)
(* State.                                                                  *)
(*   remote          the documents the remote serves (fixed per behaviour) *)
(*   fs              the local file system: resolved path -> content       *)
(*   stack           the activations of launch_minecraft; the last one is  *)
(*                   running.  Empty: the event loop is idle.              *)
(*   progress_bar    self.progress_bar['value']                            *)
(*   progress_label  self.progress_label's text                            *)
(*   prev            what the last finished activation did                 *)
(*   runs, faults    counters behind MaxRuns and MaxFaults                 *)
(***************************************************************************)
VARIABLES remote, fs, stack, progress_bar, progress_label, prev, runs, faults

vars == <<remote, fs, stack, progress_bar, progress_label, prev, runs, faults>>

Dir == [kind |-> "dir"]

\* A downloaded file: "partial" while it is written or when the writing broke
\* off, "complete" once the whole body was written and the file closed.
File(state) == [kind |-> "file", state |-> state]

Exists(f, p) == Real(p) \in DOMAIN f

Prefixes(p) == {SubSeq(p, 1, n) : n \in 1..Len(p)}

\* os.makedirs(d, exist_ok=True): d and every missing ancestor.
MakeDirs(f, d) ==
    [q \in DOMAIN f \cup Prefixes(Real(d)) |->
        IF q \in DOMAIN f THEN f[q] ELSE Dir]

\* open(p, 'w') / open(p, 'wb') followed by writes: the content is replaced.
WriteFile(f, p, content) ==
    [q \in DOMAIN f \cup {Real(p)} |-> IF q = Real(p) THEN content ELSE f[q]]

FileState(f, p) ==
    IF Exists(f, p) /\ f[Real(p)].kind = "file" THEN f[Real(p)].state
    ELSE IF Exists(f, p) THEN "other" ELSE "absent"

(***************************************************************************)
(* An activation of launch_minecraft: the position in the code and the     *)
(* locals of launch_minecraft and of the calls it is in.  log is the       *)
(* history of what this activation has done.                               *)
(***************************************************************************)
NoDownload == None

NewFrame(selected_version) ==
    [pc                |-> "fetch_versions",
     selected_version  |-> selected_version,
     versions_data     |-> None,
     vi                |-> 1,
     version_details   |-> None,
     classpath_entries |-> <<>>,
     li                |-> 1,
     dl                |-> NoDownload,
     ret               |-> "",
     downloaded        |-> None,
     log               |-> <<>>]

Top == stack[Len(stack)]

Running(label) == stack # <<>> /\ Top.pc = label

SetTop(f) == stack' = [stack EXCEPT ![Len(stack)] = f]

Logged(f, event) == [f EXCEPT !.log = Append(@, event)]

\* The handler returns (or an exception leaves it): the activation ends.
Finish(f) ==
    /\ stack' = SubSeq(stack, 1, Len(stack) - 1)
    /\ prev' = [selected_version |-> f.selected_version, log |-> f.log]

Init ==
    /\ remote \in [index : Indexes, descriptor : Descriptors]
    /\ fs = <<>>
    /\ stack = <<>>
    /\ progress_bar = 0
    /\ progress_label = ""
    /\ prev = None
    /\ runs = 0
    /\ faults = 0

(***************************************************************************)
(* launch_minecraft, lines 187-194: the Launch button is pressed while the *)
(* event loop is idle.  The selection is "v1", the version the model       *)
(* follows (the index fetched now need not offer it any more), or empty    *)
(* when the index could not be fetched at construction.                    *)
(***************************************************************************)
LaunchClick ==
    /\ stack = <<>>
    /\ runs < MaxRuns
    /\ runs' = runs + 1
    /\ \E selected_version \in {"", "v1"} :
         IF selected_version = ""
         THEN UNCHANGED <<stack, progress_bar, progress_label>>
         ELSE /\ stack' = Append(stack, NewFrame(selected_version))
              /\ progress_label' = ""
              /\ progress_bar' = 0
    /\ UNCHANGED <<remote, fs, prev, faults>>


(***************************************************************************)
(* download_file(url, path, file_name), lines 62-94.  The caller's         *)
(* position `ret` is where the result is handed back.                      *)
(***************************************************************************)
CallDownload(f, url, path, file_name, ret, lib) ==
    [Logged(f, [e |-> "download", url |-> url, path |-> path, lib |-> lib,
                before |-> FileState(fs, path)])
        EXCEPT !.pc = "df_request",
               !.dl = [url |-> url, path |-> path, file_name |-> file_name,
                       total_size |-> None, n |-> 0, chunks |-> 0],
               !.ret = ret]

\* except Exception (lines 91-94): the error is shown and None returned.
DownloadFailed(f, opened) ==
    [Logged(f, [e |-> "download_failed", path |-> f.dl.path,
                opened |-> opened])
        EXCEPT !.pc = f.ret, !.dl = NoDownload, !.downloaded = None]

\* TotalSize keeping a declared length of 0 as the total.
TotalSizeAsDeclared(content_length) == Some(content_length)

\* Lines 67-70: a content length that is absent (read as 0) or 0 is no total.
TotalSize(content_length) ==
    IF content_length = 0 THEN None ELSE Some(content_length)

\* Lines 64-81: the request, the content length, the directories and the
\* open for writing, which creates or truncates the file.
DfRequest ==
    /\ Running("df_request")
    /\ \/ /\ faults < MaxFaults
          /\ faults' = faults + 1
          /\ SetTop(DownloadFailed(Top, FALSE))
          /\ UNCHANGED fs
       \/ /\ \E content_length \in 0..MaxChunks :
               SetTop([Top EXCEPT
                   !.pc = "df_stream",
                   !.dl.total_size = TotalSize(content_length)])
          /\ fs' = WriteFile(MakeDirs(fs, Dirname(Top.dl.path)),
                             Top.dl.path, File("partial"))
          /\ UNCHANGED faults
    /\ UNCHANGED <<remote, progress_bar, progress_label, prev, runs>>

\* (bar.n / total_size) * 100, in whole percent.
Percent(n, total_size) == (n * 100) \div total_size

\* Lines 82-88: one chunk is written; with a known total the bar, the label
\* and the progress bar follow.  master.update() (line 87) is taken to find
\* no pending event.
DfChunk ==
    /\ Running("df_stream")
    /\ Top.dl.chunks < MaxChunks
    /\ IF Top.dl.total_size # None
       THEN /\ SetTop([Top EXCEPT !.dl.chunks = @ + 1, !.dl.n = @ + 1])
            /\ progress_label' = Top.dl.file_name
            /\ progress_bar' = Percent(Top.dl.n + 1, Value(Top.dl.total_size))
       ELSE /\ SetTop([Top EXCEPT !.dl.chunks = @ + 1])
            /\ UNCHANGED <<progress_bar, progress_label>>
    /\ UNCHANGED <<remote, fs, prev, runs, faults>>

\* Lines 82, 90: the body ends; the file is closed and its path returned.
DfEnd ==
    /\ Running("df_stream")
    /\ fs' = WriteFile(fs, Top.dl.path, File("complete"))
    /\ SetTop([Top EXCEPT !.pc = Top.ret, !.dl = NoDownload,
                          !.downloaded = Top.dl.path])
    /\ UNCHANGED <<remote, progress_bar, progress_label, prev, runs, faults>>

\* Lines 82-83, 91-94: the transfer or the write breaks off; what was
\* written stays on disk.
DfBreak ==
    /\ Running("df_stream")
    /\ faults < MaxFaults
    /\ faults' = faults + 1
    /\ SetTop(DownloadFailed(Top, TRUE))
    /\ UNCHANGED <<remote, fs, progress_bar, progress_label, prev, runs>>

(***************************************************************************)
(* download_version(version_id), lines 129-175, called at line 195.        *)
(***************************************************************************)
\* fetch_versions, lines 51-59 and 130-131, 175, 196-198.  A failed fetch
\* ends the handler, whether the exception is caught at line 56 or leaves
\* download_version.
FetchVersions ==
    /\ Running("fetch_versions")
    /\ \/ /\ SetTop(Logged([Top EXCEPT !.pc = "scan",
                                       !.versions_data = remote.index],
                            [e |-> "fetch_index", ok |-> TRUE]))
          /\ UNCHANGED <<prev, faults>>
       \/ /\ faults < MaxFaults
          /\ faults' = faults + 1
          /\ Finish(Logged(Top, [e |-> "fetch_index", ok |-> FALSE]))
    /\ UNCHANGED <<remote, fs, progress_bar, progress_label, runs>>

\* Lines 132-133: the loop runs on to the next entry with the selected id;
\* lines 175, 196-198 when there is none.
ScanVersions ==
    /\ Running("scan")
    /\ LET versions == Top.versions_data["versions"]
           matching == {j \in Top.vi..Len(versions) :
                           versions[j]["id"] = Top.selected_version}
       IN  IF matching = {}
           THEN Finish(Top)
           ELSE /\ SetTop([Top EXCEPT
                       !.pc = "fetch_descriptor",
                       !.vi = CHOOSE j \in matching :
                                 \A k \in matching : j <= k])
                /\ UNCHANGED prev
    /\ UNCHANGED <<remote, fs, progress_bar, progress_label, runs, faults>>

\* except Exception (lines 172-174): the error is shown and the loop over
\* the index goes on.
VersionFailed(f) == [f EXCEPT !.pc = "scan", !.vi = @ + 1]

\* Lines 135-145: the descriptor is requested and parsed (its HTTP status
\* is not looked at), the version directory made, and the main archive's
\* download started.
FetchDescriptor ==
    /\ Running("fetch_descriptor")
    /\ \/ /\ faults < MaxFaults
          /\ faults' = faults + 1
          /\ SetTop(VersionFailed(Logged(Top,
                 [e |-> "fetch_descriptor", vi |-> Top.vi,
                  failure |-> "network or parse"])))
          /\ UNCHANGED fs
       \/ \E status_ok \in BOOLEAN, body \in {remote.descriptor, ErrorBody} :
            LET sound == status_ok /\ body = remote.descriptor
                f == Logged([Top EXCEPT !.version_details = body],
                        [e |-> "fetch_descriptor", vi |-> Top.vi,
                         failure |-> IF status_ok THEN "none" ELSE "status"])
                version_id == Top.selected_version
            IN  /\ sound \/ faults < MaxFaults
                /\ faults' = IF sound THEN faults ELSE faults + 1
                /\ fs' = MakeDirs(fs, VersionDir(version_id))
                /\ IF /\ Has(body, "downloads")
                      /\ Has(body["downloads"], "client")
                      /\ Has(body["downloads"]["client"], "url")
                   THEN SetTop(CallDownload(f,
                            body["downloads"]["client"]["url"],
                            JarPath(version_id), version_id \o ".jar",
                            "after_jar", 0))
                   ELSE SetTop(VersionFailed(f))
    /\ UNCHANGED <<remote, progress_bar, progress_label, prev, runs>>

\* Lines 147-154: the descriptor is saved and the classpath begun.  A write
\* that fails raises into the except of lines 172-174.
AfterJar ==
    /\ Running("after_jar")
    /\ LET version_id == Top.selected_version
       IN  \/ /\ fs' = WriteFile(fs, JsonPath(version_id),
                            [kind |-> "json", doc |-> Top.version_details])
              /\ SetTop([Logged(Top, [e |-> "write_json"]) EXCEPT
                      !.pc = "libraries",
                      !.li = 1,
                      !.classpath_entries = <<JarPath(version_id)>>])
              /\ UNCHANGED faults
           \/ /\ faults < MaxFaults
              /\ faults' = faults + 1
              /\ SetTop(VersionFailed(Logged(Top, [e |-> "write_failed"])))
              /\ UNCHANGED fs
    /\ UNCHANGED <<remote, progress_bar, progress_label, prev, runs>>

\* HasArtifact with a look at the disk: a library whose file is there is
\* passed over.
HasArtifactNotOnDisk(library) ==
    /\ Has(library, "downloads")
    /\ LET artifact == Get(library["downloads"], "artifact", <<>>)
       IN  /\ Has(artifact, "path") /\ Has(artifact, "url")
           /\ ~Exists(fs, ArtifactPath(artifact))

\* HasArtifact passing over a library that declares natives.
HasArtifactUnlessNatives(library) ==
    /\ Has(library, "downloads")
    /\ ~Has(library, "natives")
    /\ LET artifact == Get(library["downloads"], "artifact", <<>>)
       IN  Has(artifact, "path") /\ Has(artifact, "url")

\* Lines 157-159 and 229-231.
HasArtifact(library) ==
    /\ Has(library, "downloads")
    /\ LET artifact == Get(library["downloads"], "artifact", <<>>)
       IN  Has(artifact, "path") /\ Has(artifact, "url")

\* Lines 156-161: one turn of the loop over the libraries.
LibraryLoop ==
    /\ Running("libraries")
    /\ LET libraries == Get(Top.version_details, "libraries", <<>>)
       IN  IF Top.li > Len(libraries)
           THEN SetTop([Top EXCEPT !.pc = "write_classpath"])
           ELSE LET library == libraries[Top.li]
                IN  IF HasArtifact(library)
                    THEN LET artifact == library["downloads"]["artifact"]
                         IN  SetTop(CallDownload(Top, artifact["url"],
                                 ArtifactPath(artifact),
                                 Last(Split(artifact["path"])),
                                 "after_library", Top.li))
                    ELSE SetTop([Top EXCEPT !.li = @ + 1])
    /\ UNCHANGED <<remote, fs, progress_bar, progress_label, prev, runs,
                   faults>>

\* AddEntry putting the new entry in front.
AddEntryInFront(entries, path) == <<path>> \o entries

\* Lines 162 and 233: list.append.
AddEntry(entries, path) == Append(entries, path)

AfterLibrary ==
    /\ Running("after_library")
    /\ LET libraries == Get(Top.version_details, "libraries", <<>>)
           artifact == libraries[Top.li]["downloads"]["artifact"]
       IN  SetTop([Top EXCEPT
               !.pc = "libraries",
               !.li = @ + 1,
               !.classpath_entries = AddEntry(@, ArtifactPath(artifact))])
    /\ UNCHANGED <<remote, fs, progress_bar, progress_label, prev, runs,
                   faults>>

\* Lines 164-171: classpath.txt is written and the descriptor returned;
\* lines 195-205: launch_minecraft goes on if the main archive exists.  A
\* write that fails raises into the except of lines 172-174.
WriteClasspath ==
    /\ Running("write_classpath")
    /\ LET version_id == Top.selected_version
           f == Logged(Top, [e |-> "returned",
                             classpath_entries |-> Top.classpath_entries])
       IN  \/ /\ fs' = WriteFile(fs, ClasspathFile(version_id),
                            [kind |-> "text",
                             entries |-> Top.classpath_entries])
              /\ IF Exists(fs, McJar(version_id))
                 THEN SetTop([f EXCEPT !.pc = "download_lwjgl"])
                      /\ UNCHANGED prev
                 ELSE Finish(f)
              /\ UNCHANGED faults
           \/ /\ faults < MaxFaults
              /\ faults' = faults + 1
              /\ SetTop(VersionFailed(Logged(Top, [e |-> "write_failed"])))
              /\ UNCHANGED <<fs, prev>>
    /\ UNCHANGED <<remote, progress_bar, progress_label, runs>>

(***************************************************************************)
(* download_lwjgl, lines 97-127, called at line 215.                       *)
(***************************************************************************)
\* Lines 102-103, 114-116.
DownloadLwjgl ==
    /\ Running("download_lwjgl")
    /\ IF ~Exists(fs, LwjglPath)
       THEN SetTop(CallDownload(Top, LwjglZipUrl, LwjglZipPath,
                                "lwjgl-2.9.3.zip", "lwjgl_extract", -1))
       ELSE SetTop([Top EXCEPT !.pc = "lwjgl_natives"])
    /\ UNCHANGED <<remote, fs, progress_bar, progress_label, prev, runs,
                   faults>>

\* extractall of an archive that holds the expected libraries under
\* lwjgl-2.9.3/lwjgl-2.9.3/native/windows.
RECURSIVE ExtractFiles(_, _, _)
ExtractFiles(f, dir, names) ==
    IF names = <<>> THEN f
    ELSE ExtractFiles(WriteFile(MakeDirs(f, dir), PathJoin(dir, <<Head(names)>>),
                                File("complete")),
                      dir, Tail(names))

\* Lines 104-113: the archive is unpacked beside lwjgl_path.  What lands
\* where is the archive's layout; a corrupt archive raises (lines 110-113,
\* 216-217).
LwjglExtract ==
    /\ Running("lwjgl_extract")
    /\ IF Top.downloaded # None
       THEN \/ /\ fs' = ExtractFiles(fs, NativesDir, ExpectedFiles)
               /\ SetTop([Top EXCEPT !.pc = "lwjgl_natives"])
               /\ UNCHANGED <<prev, faults>>
            \/ /\ faults < MaxFaults
               /\ faults' = faults + 1
               /\ fs' = MakeDirs(fs, LwjglPath)
               /\ SetTop([Top EXCEPT !.pc = "lwjgl_natives"])
               /\ UNCHANGED prev
            \/ /\ faults < MaxFaults
               /\ faults' = faults + 1
               /\ Finish(Logged(Top, [e |-> "extract_failed"]))
               /\ UNCHANGED fs
       ELSE /\ SetTop([Top EXCEPT !.pc = "lwjgl_natives"])
            /\ UNCHANGED <<fs, prev, faults>>
    /\ UNCHANGED <<remote, progress_bar, progress_label, runs>>

\* NativesMissing looking only for the directory of the package.
NativesMissingDirOnly(f) == ~Exists(f, LwjglPath)

\* Lines 121-122: some expected library is not in natives_dir.
NativesMissing(f) ==
    \E i \in DOMAIN ExpectedFiles :
        ~Exists(f, PathJoin(NativesDir, <<ExpectedFiles[i]>>))

\* Lines 118-127 and 216-223.
LwjglNatives ==
    /\ Running("lwjgl_natives")
    /\ IF NativesMissing(fs)
       THEN Finish(Logged(Top, [e |-> "natives_missing"]))
       ELSE SetTop([Top EXCEPT !.pc = "run"]) /\ UNCHANGED prev
    /\ UNCHANGED <<remote, fs, progress_bar, progress_label, runs, faults>>

(***************************************************************************)
(* launch_minecraft, lines 207 and 225-255: the classpath, the command and *)
(* the runtime process.                                                    *)
(***************************************************************************)
\* Lines 226-233.
RECURSIVE LaunchClasspath(_, _, _)
LaunchClasspath(libraries, i, classpath) ==
    IF i > Len(libraries) THEN classpath
    ELSE IF HasArtifact(libraries[i])
         THEN LaunchClasspath(libraries, i + 1,
                  AddEntry(classpath,
                      LaunchArtifactPath(libraries[i]["downloads"]["artifact"])))
    ELSE LaunchClasspath(libraries, i + 1, classpath)

Run ==
    /\ Running("run")
    /\ LET version_details == Top.version_details
           selected_version == Top.selected_version
       IN  IF ~Has(version_details, "mainClass")
           THEN Finish(Top)
           ELSE Finish(Logged(Top,
                   [e |-> "spawn",
                    java_library_path |-> NativesDir,
                    classpath |->
                        LaunchClasspath(Get(version_details, "libraries", <<>>),
                                        1, <<McJar(selected_version)>>),
                    main_class |-> version_details["mainClass"],
                    version |-> selected_version]))
    /\ UNCHANGED <<remote, fs, progress_bar, progress_label, runs, faults>>

Next ==
    \/ LaunchClick
    \/ FetchVersions
    \/ ScanVersions
    \/ FetchDescriptor
    \/ DfRequest
    \/ DfChunk
    \/ DfEnd
    \/ DfBreak
    \/ AfterJar
    \/ LibraryLoop
    \/ AfterLibrary
    \/ WriteClasspath
    \/ DownloadLwjgl
    \/ LwjglExtract
    \/ LwjglNatives
    \/ Run

Spec == Init /\ [][Next]_vars

(***************************************************************************)
(* master.update() (line 87) runs the event loop from inside               *)
(* download_file.  The Launch button stays enabled (lines 31-33), so a     *)
(* press that is pending is dispatched there: launch_minecraft starts anew *)
(* on top of the activation that is downloading, and that one goes on when *)
(* the new one has returned.                                               *)
(***************************************************************************)
\* Lines 83-87, then 187-194 for the pending press.
UpdateDispatch ==
    /\ Running("df_stream")
    /\ Top.dl.chunks < MaxChunks
    /\ Top.dl.total_size # None
    /\ runs < MaxRuns
    /\ runs' = runs + 1
    /\ LET waiting == [stack EXCEPT ![Len(stack)] =
                          [Top EXCEPT !.pc = "df_update",
                                      !.dl.chunks = @ + 1, !.dl.n = @ + 1]]
       IN  \E selected_version \in {"", "v1"} :
             IF selected_version = ""
             THEN /\ stack' = waiting
                  /\ progress_label' = Top.dl.file_name
                  /\ UNCHANGED progress_bar
             ELSE /\ stack' = Append(waiting, NewFrame(selected_version))
                  /\ progress_label' = ""
                  /\ progress_bar' = 0
    /\ UNCHANGED <<remote, fs, prev, faults>>

\* Line 88, once master.update() has returned.
UpdateReturns ==
    /\ Running("df_update")
    /\ progress_bar' = Percent(Top.dl.n, Value(Top.dl.total_size))
    /\ SetTop([Top EXCEPT !.pc = "df_stream"])
    /\ UNCHANGED <<remote, fs, progress_label, prev, runs, faults>>

NextReentrant ==
    \/ Next
    \/ UpdateDispatch
    \/ UpdateReturns

SpecReentrant == Init /\ [][NextReentrant]_vars


(***************************************************************************)
(* What the activations did: the history of every running activation and   *)
(* of the one that finished last.                                          *)
(***************************************************************************)
Histories ==
    {stack[i].log : i \in DOMAIN stack}
        \cup (IF prev = None THEN {} ELSE {prev.log})

Range(s) == {s[i] : i \in DOMAIN s}

\* A download of the main archive or of a library (not of the LWJGL package).
ArtifactDownload(event) == event.e = "download" /\ event.lib >= 0

ArtifactDownloadFailed(event) ==
    event.e = "download_failed" /\ event.path # LwjglZipPath

RemoteLibraries == remote.descriptor["libraries"]

(***************************************************************************)
(* C1.  A failed download of the main archive or of a library is fatal:    *)
(* after it, download_version writes no classpath.txt and returns no       *)
(* descriptor, and the runtime process is not spawned.                     *)
(***************************************************************************)
C1_DownloadFailureIsFatal ==
    \A h \in Histories : \A i, j \in DOMAIN h :
        (i < j /\ ArtifactDownloadFailed(h[i]))
            => h[j].e \notin {"returned", "spawn"}

(***************************************************************************)
(* C2.  Idempotence: a run for the same version that follows a run in      *)
(* which every artifact was downloaded completely downloads no artifact    *)
(* (download_file is not called for a file that is on disk) and builds the *)
(* same classpath.                                                         *)
(***************************************************************************)
Returned(h) == \E i \in DOMAIN h : h[i].e = "returned"

ReturnedClasspath(h) ==
    LET i == CHOOSE k \in DOMAIN h : h[k].e = "returned"
    IN  h[i].classpath_entries

Materialized(h) ==
    /\ Returned(h)
    /\ \A i \in DOMAIN h : h[i].e \notin {"download_failed", "write_failed"}

C2_SecondRunDownloadsNothing ==
    \A k \in DOMAIN stack :
        (/\ prev # None
         /\ Materialized(prev.log)
         /\ prev.selected_version = stack[k].selected_version)
            => LET h == stack[k].log
               IN  /\ \A i \in DOMAIN h :
                        ArtifactDownload(h[i]) => h[i].before = "absent"
                   /\ Returned(h)
                        => ReturnedClasspath(h) = ReturnedClasspath(prev.log)

(***************************************************************************)
(* C3.  Path safety: a library artifact whose declared path has a ".."     *)
(* segment is rejected before anything is written: download_file is not    *)
(* called for it, no file is opened for it, and no classpath names it.     *)
(***************************************************************************)
HasParentSegment(path) == \E i \in DOMAIN path : path[i] = ".."

ClasspathsBuilt(h) ==
    {h[i].classpath_entries : i \in {k \in DOMAIN h : h[k].e = "returned"}}
        \cup {h[i].classpath : i \in {k \in DOMAIN h : h[k].e = "spawn"}}

C3_ParentSegmentRejected ==
    /\ \A h \in Histories : \A i \in DOMAIN h :
            h[i].e = "download" => ~HasParentSegment(h[i].path)
    /\ \A h \in Histories : \A cp \in ClasspathsBuilt(h) :
            \A i \in DOMAIN cp : ~HasParentSegment(cp[i])
    /\ \A library \in Range(RemoteLibraries) :
            (HasArtifact(library)
             /\ HasParentSegment(Split(library["downloads"]["artifact"]["path"])))
                => ~Exists(fs, ArtifactPath(library["downloads"]["artifact"]))

(***************************************************************************)
(* C4.  Platform filtering: a library whose rules deny the platform is     *)
(* not downloaded and is in no classpath, neither in classpath.txt nor in  *)
(* the launch command.                                                     *)
(***************************************************************************)
Denies(library, platform) ==
    /\ Has(library, "rules")
    /\ \E rule \in library["rules"] : rule.os = platform /\ ~rule.applies

DeniedPaths ==
    UNION {{ArtifactPath(library["downloads"]["artifact"]),
            LaunchArtifactPath(library["downloads"]["artifact"])} :
              library \in {l \in Range(RemoteLibraries) :
                              HasArtifact(l) /\ Denies(l, Platform)}}

C4_DeniedLibraryExcluded ==
    \A h \in Histories :
        /\ \A i \in DOMAIN h :
              ArtifactDownload(h[i]) => h[i].path \notin DeniedPaths
        /\ \A cp \in ClasspathsBuilt(h) :
              \A i \in DOMAIN cp : cp[i] \notin DeniedPaths


(***************************************************************************)
(* C5.  Order invariant: every classpath that is built (the one written to *)
(* classpath.txt and returned, and the one of the launch command) has the  *)
(* main archive's path first and then the library artifacts' paths, in the *)
(* order of the libraries in the descriptor.                               *)
(***************************************************************************)
WithArtifact(libraries) == {i \in DOMAIN libraries : HasArtifact(libraries[i])}

\* Where library i's artifact stands when the main archive is first and
\* the libraries keep their order.
Position(libraries, i) ==
    2 + Cardinality({j \in WithArtifact(libraries) : j < i})

InDescriptorOrder(cp, main, libraries) ==
    /\ Len(cp) = 1 + Cardinality(WithArtifact(libraries))
    /\ cp[1] = main
    /\ \A i \in WithArtifact(libraries) :
          cp[Position(libraries, i)] =
              <<"%APPDATA%", ".minecraft", "libraries">>
                  \o Split(libraries[i]["downloads"]["artifact"]["path"])

Manifests ==
    {fs[q].entries : q \in {r \in DOMAIN fs : fs[r].kind = "text"}}

C5_ClasspathInDescriptorOrder ==
    LET main == <<"%APPDATA%", ".minecraft", "versions", "v1", "v1.jar">>
    IN  /\ \A h \in Histories : \A cp \in ClasspathsBuilt(h) :
              InDescriptorOrder(cp, main, RemoteLibraries)
        /\ \A cp \in Manifests :
              InDescriptorOrder(cp, main, RemoteLibraries)

\* A launch command was built from a descriptor with two libraries that
\* have different artifacts, after classpath.txt was written.
C5_Witness ==
    /\ prev # None
    /\ \E i \in DOMAIN prev.log :
          /\ prev.log[i].e = "spawn"
          /\ Len(prev.log[i].classpath) = 3
          /\ prev.log[i].classpath[2] # prev.log[i].classpath[3]
    /\ Manifests # {}

(***************************************************************************)
(* C6.  A partial main archive is no evidence of success: when the main    *)
(* archive's download breaks off after its file was opened, the run does   *)
(* not record the file in a classpath manifest and does not launch.        *)
(***************************************************************************)
C6_PartialArchiveNotUsed ==
    \A k \in DOMAIN stack \cup (IF prev = None THEN {} ELSE {0}) :
        LET h == IF k = 0 THEN prev.log ELSE stack[k].log
            version_id == IF k = 0 THEN prev.selected_version
                          ELSE stack[k].selected_version
        IN  \A i, j \in DOMAIN h :
               (/\ i < j
                /\ h[i].e = "download_failed"
                /\ h[i].opened
                /\ h[i].path = JarPath(version_id))
                   => /\ h[j].e # "spawn"
                      /\ h[j].e = "returned"
                           => \A n \in DOMAIN h[j].classpath_entries :
                                 h[j].classpath_entries[n] # JarPath(version_id)

(***************************************************************************)
(* C7.  No stage is re-entered: once a descriptor fetch or an artifact     *)
(* download has started, the same invocation starts no other descriptor    *)
(* fetch.                                                                  *)
(***************************************************************************)
C7_NoSecondDescriptorFetch ==
    \A h \in Histories : \A i, j \in DOMAIN h :
        (i < j /\ (h[i].e = "fetch_descriptor" \/ ArtifactDownload(h[i])))
            => h[j].e # "fetch_descriptor"

(***************************************************************************)
(* C8.  A failed index fetch or descriptor fetch (network error, HTTP      *)
(* status that is no success, body that does not parse) aborts the         *)
(* resolution: afterwards nothing is downloaded, neither the descriptor    *)
(* nor classpath.txt is written, no descriptor is returned and nothing is  *)
(* launched.                                                               *)
(***************************************************************************)
FetchFailed(event) ==
    \/ event.e = "fetch_index" /\ ~event.ok
    \/ event.e = "fetch_descriptor" /\ event.failure # "none"

C8_FetchFailureAborts ==
    \A h \in Histories : \A i, j \in DOMAIN h :
        (i < j /\ FetchFailed(h[i]))
            => h[j].e \notin {"download", "write_json", "returned", "spawn"}

(***************************************************************************)
(* C9.  When a resolution has returned without a failure, every included   *)
(* library that declares a native artifact for the platform has had that   *)
(* artifact downloaded and unpacked into the version's natives directory,  *)
(* and no classpath names the native artifact.                             *)
(***************************************************************************)
HasNative(library, platform) ==
    /\ Has(library, "natives")
    /\ Has(library["natives"], platform)
    /\ Has(library, "downloads")
    /\ Has(Get(library["downloads"], "classifiers", <<>>),
           library["natives"][platform])

NativeArtifact(library, platform) ==
    library["downloads"]["classifiers"][library["natives"][platform]]

NativesDirectory(id) == VersionDir(id) \o <<"natives">>

C9_NativesDownloadedAndUnpacked ==
    \A k \in DOMAIN stack : \A library \in Range(RemoteLibraries) :
        (/\ Materialized(stack[k].log)
         /\ HasNative(library, Platform)
         /\ ~Denies(library, Platform))
            => LET native == NativeArtifact(library, Platform)
                   h == stack[k].log
               IN  /\ \E i \in DOMAIN h :
                        h[i].e = "download" /\ h[i].url = native["url"]
                   /\ Exists(fs, NativesDirectory(stack[k].selected_version))
                   /\ \A cp \in ClasspathsBuilt(h) : \A n \in DOMAIN cp :
                        cp[n] # ArtifactPath(native)

(***************************************************************************)
(* C10.  Determinism: for the same descriptor, two resolutions that each   *)
(* returned made the same artifact requests (url and destination) in the   *)
(* same order and built the same classpath, whatever was on disk when each *)
(* began.                                                                  *)
(***************************************************************************)
\* The part of a history that is the resolution that returned: from its
\* descriptor fetch on.
LastFetch(h) ==
    CHOOSE i \in DOMAIN h :
        /\ h[i].e = "fetch_descriptor"
        /\ \A j \in DOMAIN h : h[j].e = "fetch_descriptor" => j <= i

Resolution(h) == SubSeq(h, LastFetch(h), Len(h))

Requests(h) ==
    LET downloads == SelectSeq(Resolution(h), ArtifactDownload)
    IN  [i \in DOMAIN downloads |->
            [url |-> downloads[i].url, path |-> downloads[i].path]]

C10_SameRequestsWhateverOnDisk ==
    \A k \in DOMAIN stack :
        (/\ prev # None
         /\ Returned(prev.log)
         /\ Returned(stack[k].log)
         /\ prev.selected_version = stack[k].selected_version)
            => /\ Requests(stack[k].log) = Requests(prev.log)
               /\ ReturnedClasspath(stack[k].log) = ReturnedClasspath(prev.log)

\* Two resolutions returned, the first begun on an empty disk and the
\* second with every artifact of two libraries already there.
C10_Witness ==
    /\ prev # None
    /\ Returned(prev.log)
    /\ stack # <<>>
    /\ Returned(Top.log)
    /\ Len(Requests(Top.log)) = 3
    /\ \A i \in DOMAIN prev.log :
          ArtifactDownload(prev.log[i]) => prev.log[i].before = "absent"
    /\ \A i \in DOMAIN Top.log :
          ArtifactDownload(Top.log[i]) => Top.log[i].before = "complete"


(***************************************************************************)
(* C11.  One pipeline at a time: no two activations of launch_minecraft    *)
(* are in download_file with the same destination file open for writing.   *)
(***************************************************************************)
InFlight(f) == f.dl # NoDownload /\ f.pc \in {"df_stream", "df_update"}

C11_NoTwoWritersOfOneFile ==
    \A i, j \in DOMAIN stack :
        (i < j /\ InFlight(stack[i]) /\ InFlight(stack[j]))
            => Real(stack[i].dl.path) # Real(stack[j].dl.path)


(***************************************************************************)
(* C12.  The runtime process is spawned only as the last thing of a run in *)
(* which download_version returned a descriptor before, the main archive   *)
(* is on disk and every expected native library is on disk; a run in which *)
(* a native library was found missing or the extraction failed spawns      *)
(* nothing.                                                                *)
(***************************************************************************)
Runs ==
    {[selected_version |-> stack[i].selected_version, log |-> stack[i].log] :
        i \in DOMAIN stack}
        \cup (IF prev = None THEN {} ELSE {prev})

C12_SpawnOnlyAfterAllChecks ==
    \A run \in Runs : \A j \in DOMAIN run.log :
        LET h == run.log
        IN  /\ h[j].e = "spawn"
                => /\ j = Len(h)
                   /\ \E i \in 1..(j - 1) : h[i].e = "returned"
                   /\ Exists(fs, <<"%APPDATA%", ".minecraft", "versions",
                                   run.selected_version,
                                   run.selected_version \o ".jar">>)
                   /\ \A n \in DOMAIN ExpectedFiles :
                         Exists(fs, <<"~", ".minecraft", "lwjgl-2.9.3",
                                      "lwjgl-2.9.3", "native", "windows",
                                      ExpectedFiles[n]>>)
            /\ h[j].e \in {"natives_missing", "extract_failed"}
                => \A i \in DOMAIN h : h[i].e # "spawn"

\* A run has spawned the runtime process.
C12_Witness ==
    /\ prev # None
    /\ prev.log # <<>>
    /\ prev.log[Len(prev.log)].e = "spawn"

(***************************************************************************)
(* C13.  With no content length (absent or 0) a download still writes      *)
(* every chunk, never advances the byte counter a percentage is computed   *)
(* from, and leaves the progress bar and the progress label as they were;  *)
(* the total a percentage is divided by is never zero.                     *)
(***************************************************************************)
Downloads == {stack[i].dl : i \in {k \in DOMAIN stack : stack[k].dl # NoDownload}}

ChunkWithoutTotal ==
    /\ stack # <<>>
    /\ Len(stack') = Len(stack)
    /\ Top.pc = "df_stream"
    /\ stack'[Len(stack)].pc = "df_stream"
    /\ Top.dl.total_size = <<>>

C13_UnknownLengthNoPercentage ==
    /\ [](\A dl \in Downloads :
            /\ dl.total_size # <<>> => dl.total_size[1] > 0
            /\ dl.total_size = <<>> => dl.n = 0)
    /\ [][ChunkWithoutTotal =>
            /\ stack'[Len(stack)].dl.chunks = Top.dl.chunks + 1
            /\ stack'[Len(stack)].dl.n = 0
            /\ stack'[Len(stack)].dl.total_size = <<>>
            /\ progress_bar' = progress_bar
            /\ progress_label' = progress_label]_vars

\* A chunk of a download without a total has been written while the
\* progress bar shows the percentage an earlier download left.
C13_Witness ==
    /\ stack # <<>>
    /\ Top.pc = "df_stream"
    /\ Top.dl.total_size = <<>>
    /\ Top.dl.chunks >= 1
    /\ progress_bar > 0

(***************************************************************************)
(* C14.  The entries a run writes to classpath.txt are, one for one and in *)
(* the same order, the entries of the classpath of the command the same    *)
(* run launches: what download_version returned with is what was           *)
(* launched, and it is what the file of the launched version holds once    *)
(* the run is over.                                                        *)
(***************************************************************************)
Spawns(h) == {i \in DOMAIN h : h[i].e = "spawn"}

PersistedBefore(h, j) ==
    {h[i].classpath_entries : i \in {k \in 1..(j - 1) : h[k].e = "returned"}}

C14_ManifestIsLaunchedClasspath ==
    /\ \A h \in Histories : \A j \in Spawns(h) :
            PersistedBefore(h, j) = {h[j].classpath}
    /\ (prev # None /\ stack = <<>>)
            => \A j \in Spawns(prev.log) :
                  LET q == <<"%APPDATA%", ".minecraft", "versions",
                             prev.log[j].version, "classpath.txt">>
                  IN  /\ q \in DOMAIN fs
                      /\ fs[q].kind = "text"
                      /\ fs[q].entries = prev.log[j].classpath

\* A run has launched a classpath of the main archive and a library below
\* the libraries directory, with classpath.txt on disk.
C14_Witness ==
    /\ prev # None
    /\ stack = <<>>
    /\ \E j \in Spawns(prev.log) :
          /\ Len(prev.log[j].classpath) >= 2
          /\ PersistedBefore(prev.log, j) # {}
    /\ Manifests # {}

(***************************************************************************)
(* C15.  A library adds a classpath entry exactly if it has a              *)
(* downloads.artifact with a path and a url: a download is requested for   *)
(* such a library and for no other, every classpath built has one entry    *)
(* for the main archive and one for each such library, and every entry     *)
(* after the first was requested for download before, in the same run.     *)
(***************************************************************************)
CompleteArtifact(library) ==
    /\ "downloads" \in DOMAIN library
    /\ "artifact" \in DOMAIN library["downloads"]
    /\ "path" \in DOMAIN library["downloads"]["artifact"]
    /\ "url" \in DOMAIN library["downloads"]["artifact"]

Complete == {i \in DOMAIN RemoteLibraries : CompleteArtifact(RemoteLibraries[i])}

\* The libraries a download was requested for before event j of history h.
RequestedBefore(h, j) ==
    {h[i].lib : i \in {k \in 1..(j - 1) : h[k].e = "download" /\ h[k].lib >= 1}}

RequestedPathsBefore(h, j) ==
    {h[i].path : i \in {k \in 1..(j - 1) : h[k].e = "download" /\ h[k].lib >= 1}}

C15_EntryIffCompleteArtifact ==
    \A h \in Histories :
        /\ RequestedBefore(h, Len(h) + 1) \subseteq Complete
        /\ \A j \in DOMAIN h :
              LET cp == IF h[j].e = "returned" THEN h[j].classpath_entries
                        ELSE IF h[j].e = "spawn" THEN h[j].classpath
                        ELSE <<>>
              IN  h[j].e \in {"returned", "spawn"}
                    => /\ Len(cp) = 1 + Cardinality(Complete)
                       /\ RequestedBefore(h, j) = Complete
                       /\ \A k \in 2..Len(cp) :
                             cp[k] \in RequestedPathsBefore(h, j)

\* A classpath was launched for a descriptor that has a library with a
\* complete artifact and a library without one.
C15_Witness ==
    /\ prev # None
    /\ Spawns(prev.log) # {}
    /\ Complete # {}
    /\ Complete # DOMAIN RemoteLibraries

=============================================================================
